---- MODULE Spec2Model ----
(***************************************************************************)
(* State-machine model of the rocoknight launcher core:                    *)
(*   src-tauri/src/state/mod.rs      AppState, AppStatus, emit_status      *)
(*   src-tauri/src/login3_capture.rs start / stop / timeout watcher /      *)
(*                                   handle_login3_response                *)
(*   src-tauri/src/launcher.rs       stop_projector / launch_projector_auto*)
(*                                   / resize_projector_to_window          *)
(*   src-tauri/src/main.rs           the tauri commands                    *)
(*   src-tauri/src/embed_win32       native window calls                   *)
(*                                                                         *)
(* Every function of the source that takes the AppState mutex is split at  *)
(* its lock boundaries: one action per critical section (with the native   *)
(* calls made inside it or directly before it).  Callers are threads that  *)
(* run one command / callback at a time; watcher threads are separate.     *)
(*                                                                         *)
(* Text is modelled character by character: parse_login3_value and the     *)
(* functions under it are operators over sequences of one-character        *)
(* strings.  ParseSpec applies them on their own to bodies put together    *)
(* from parts, and does the same for redact_tokens (texts of key=value     *)
(* pairs), attach_child / detach_child (windows of every style) and        *)
(* find_window_by_pid (every pass of EnumWindows over a few windows).      *)
(* PollSpec runs find_window_by_pid and the watcher threads under weak    *)
(* fairness, for the termination of the two deadline polls.               *)
(***************************************************************************)
EXTENDS Integers, Sequences, FiniteSets, TLC

\* ---------------------------------------------------------------- bounds
MaxOps == 3          \* commands / callbacks invoked in one behaviour
MaxSessions == 2     \* start_capture calls (cancellation flags allocated)
MaxPairs == 2        \* key=value pairs in a text given to redact_tokens
MaxProcs == 2        \* projector processes spawned
MaxWindows == 2      \* top-level windows in one EnumWindows pass
MaxPolls == 2        \* timeouts of find_window_by_pid, in sleeps of 100 ms, are below it
MaxLead == 2         \* separator characters in front of a captured value

\* caller threads that may run commands and callbacks concurrently
Callers == {"c1", "c2"}
Flags == 1..MaxSessions
Pids == 1..MaxProcs

\* ------------------------------------------------------- program constants
TIMEOUT_SECS == 180
UI_BAR_HEIGHT == 36
\* window style bits, high word of GWL_STYLE (value / 2^16)
WS_OVERLAPPEDWINDOW == 207
WS_POPUP == 32768
WS_CHILD == 16384
WS_VISIBLE == 4096
StyleWidth == 16

\* Option<T> is a sequence of length <= 1
None == << >>
Some(x) == << x >>
IsSome(o) == o # << >>
Unwrap(o) == o[1]

\* AppStatus (state/mod.rs)
AppStatus == {"Login", "Capturing", "FoundValue", "Launching", "Running", "Error"}

\* messages
MsgCapturing == "Capturing login3 response"
MsgFound == "Found login3 value"
MsgTimeout == "Login timed out (180s). Please retry."
MsgMissingUrl == "Missing main.swf URL."
MsgResolve == "Failed to locate projector.exe."
MsgSpawn == "Failed to launch projector."
MsgNoWindow == "projector window not found within timeout"
MsgNoHost == "Failed to get main window handle."
MsgNoSize == "Failed to get window size."
MsgLoginView == "Login WebView not found."

\* ------------------------------------------------------------ bit helpers
RECURSIVE BitAndN(_, _, _)
BitAndN(a, b, n) ==
  IF n = 0 THEN 0
  ELSE (IF a % 2 = 1 /\ b % 2 = 1 THEN 1 ELSE 0) + 2 * BitAndN(a \div 2, b \div 2, n - 1)
RECURSIVE BitOrN(_, _, _)
BitOrN(a, b, n) ==
  IF n = 0 THEN 0
  ELSE (IF a % 2 = 1 \/ b % 2 = 1 THEN 1 ELSE 0) + 2 * BitOrN(a \div 2, b \div 2, n - 1)
RECURSIVE BitNotN(_, _)
BitNotN(a, n) ==
  IF n = 0 THEN 0
  ELSE (1 - (a % 2)) + 2 * BitNotN(a \div 2, n - 1)
BitAnd(a, b) == BitAndN(a, b, StyleWidth)
BitOr(a, b) == BitOrN(a, b, StyleWidth)
BitNot(a) == BitNotN(a, StyleWidth)

VARIABLES
  state,      \* the AppState behind the mutex
  flags,      \* the AtomicBool of each capture session's stop flag
  nflags,     \* number of stop flags created so far
  watcher,    \* position of each timeout watcher thread
  procs,      \* the spawned projector processes and their windows
  host,       \* host window client size and scale factor (percent)
  thr,        \* each caller thread: position and locals
  queue,      \* launch closures posted with run_on_main_thread, not yet run
  event,      \* payload of the last status_changed event
  ops,        \* commands / callbacks invoked so far
  last,       \* the step just taken and, when it returned an Err, its message (history)
  accepts,    \* values accepted since swf_url was last cleared (history)
  owed,       \* accepted values whose launch is not yet scheduled (history)
  acc,        \* sessions (flags) during which a value was accepted (history)
  stopped,    \* sessions (flags) ended by stop_capture (history)
  html,       \* the response body handed to the parser in this step (<< >>: none)
  ret         \* a function called on its own: its name, its input's make-up, its result

vars == << state, flags, nflags, watcher, procs, host, thr, queue, event, ops,
           last, accepts, owed, acc, stopped, html, ret >>

\* ------------------------------------------------------------- AppState
\* AppState::new
AppStateNew ==
  [ status |-> "Login", message |-> None, swf_url |-> None, capture_stop |-> None,
    projector |-> None, last_projector_rect |-> None, qq_num |-> None,
    wpe_interceptor |-> None ]

\* StatusPayload built by emit_status
StatusPayload(s) == Some([status |-> s.status, message |-> s.message])

\* stop_inner: the flag held in capture_stop is set, capture_stop is cleared
stop_inner_flags(s, fl) ==
  IF IsSome(s.capture_stop) THEN [fl EXCEPT ![Unwrap(s.capture_stop)] = TRUE] ELSE fl
stop_inner_state(s) == [s EXCEPT !.capture_stop = None]

\* stop_timer_only: the flag is set, capture_stop keeps referring to it
\* (a variant that leaves the flag alone; C37 tells the two apart)
stop_timer_only_flags_idle(s, fl) == fl
stop_timer_only_flags(s, fl) ==
  IF IsSome(s.capture_stop) THEN [fl EXCEPT ![Unwrap(s.capture_stop)] = TRUE] ELSE fl

\* start: the critical section that opens a capture session with flag f
start_state(s, f) ==
  [s EXCEPT !.status = "Capturing", !.message = Some(MsgCapturing),
            !.swf_url = None, !.capture_stop = Some(f)]

\* stop: the critical section after stop_inner
stop_state(s) == [s EXCEPT !.status = "Login", !.message = None, !.swf_url = None]

\* handle_login3_response: the acceptance test and the accepting write
\* (should_emit_any_url is the test without its swf_url half; C1 tells the two apart)
should_emit_any_url(s) == s.status # "Running"
should_emit(s) == s.status # "Running" /\ ~IsSome(s.swf_url)
accept_state(s, url) ==
  [s EXCEPT !.swf_url = Some(url), !.status = "FoundValue", !.message = Some(MsgFound)]
launching_state(s) == [s EXCEPT !.status = "Launching", !.message = None]

\* start_timeout: the watcher's test and write under the lock
timeout_applies(s) == s.status = "Capturing" /\ ~IsSome(s.swf_url)
\* (timeout_state_silent is the write without the message; C3 tells the two apart)
timeout_state_silent(s) == [s EXCEPT !.status = "Error", !.swf_url = None]
timeout_state(s) ==
  [s EXCEPT !.status = "Error", !.message = Some(MsgTimeout), !.swf_url = None]

\* set_error
set_error(s, msg) == [s EXCEPT !.status = "Error", !.message = Some(msg)]

\* launcher::stop_projector, the AppState part
\* (a variant that drops the handle and leaves the status as it was; C33 tells the two
\* apart)
stop_projector_state_keeping_status(s) ==
  [s EXCEPT !.projector = None, !.wpe_interceptor = None, !.message = None,
            !.last_projector_rect = None, !.qq_num = None]
stop_projector_state(s) ==
  [s EXCEPT !.projector = None, !.wpe_interceptor = None, !.status = "Login",
            !.message = None, !.last_projector_rect = None, !.qq_num = None]

\* launch_projector_auto, stage 8
\* (a variant that takes swf_url out of the state once it was used; C12 tells the two apart)
running_state_consuming(s, pid, style) ==
  [s EXCEPT !.projector = Some([pid |-> pid, hwnd |-> pid, original_style |-> style]),
            !.status = "Running", !.message = None, !.last_projector_rect = None,
            !.qq_num = Some(0), !.wpe_interceptor = Some(pid), !.swf_url = None]
running_state(s, pid, style) ==
  [s EXCEPT !.projector = Some([pid |-> pid, hwnd |-> pid, original_style |-> style]),
            !.status = "Running", !.message = None, !.last_projector_rect = None,
            !.qq_num = Some(0), !.wpe_interceptor = Some(pid)]

\* reset_to_login, stage 2
reset_state(s) == [s EXCEPT !.status = "Login", !.message = None, !.swf_url = None]

\* ------------------------------------------------- processes and windows
\* the window of process p has handle p
Call(f, arg) == [f |-> f, arg |-> arg]
\* calls: the native calls made on the process and its window, in order; under_lock:
\* the places in calls of those made while the caller held the AppState mutex
ProcNew ==
  [ life |-> "unborn", parent |-> "none", style |-> 0, calls |-> << >>, under_lock |-> {} ]
\* style of the projector's top-level window when it appears: overlapped, visible
InitStyle == BitOr(WS_OVERLAPPEDWINDOW, WS_VISIBLE)

\* projector::launch_projector, then the process creating its window
spawned(w) == [w EXCEPT !.life = "alive"]
window_created(w) == [w EXCEPT !.parent = "desktop", !.style = InitStyle]

\* ShowWindow(SW_HIDE)
hide_window(w) ==
  [w EXCEPT !.style = BitAnd(@, BitNot(WS_VISIBLE)),
            !.calls = Append(@, Call("hide_window", << >>))]

\* attach_child: the new style, and the window after SetParent / SetWindowLongPtrW /
\* SetWindowPos(SWP_SHOWWINDOW); it returns the style it read
\* (a variant that leaves WS_POPUP in place; C24 tells the two apart)
attach_style_keeping_popup(original_style) ==
  BitOr(BitAnd(original_style, BitNot(WS_OVERLAPPEDWINDOW)), BitOr(WS_CHILD, WS_VISIBLE))
attach_style(original_style) ==
  BitOr(BitAnd(original_style, BitNot(BitOr(WS_OVERLAPPEDWINDOW, WS_POPUP))),
        BitOr(WS_CHILD, WS_VISIBLE))
attach_child(w) ==
  [w EXCEPT !.parent = "host", !.style = BitOr(attach_style(w.style), WS_VISIBLE),
            !.calls = Append(@, Call("attach_child", << w.style >>))]

\* detach_child: SetParent(None), SetWindowLongPtrW(original), SetWindowPos(SWP_SHOWWINDOW)
detach_child(w, original_style) ==
  IF w.life = "alive"
  THEN [w EXCEPT !.parent = "desktop", !.style = BitOr(original_style, WS_VISIBLE),
                 !.calls = Append(@, Call("detach_child", << original_style >>))]
  ELSE [w EXCEPT !.calls = Append(@, Call("detach_child", << original_style >>))]

\* move_child, bring_to_top
move_child(w, rect) == [w EXCEPT !.calls = Append(@, Call("move_child", rect))]
bring_to_top(w) ==
  [w EXCEPT !.style = IF w.life = "alive" THEN BitOr(@, WS_VISIBLE) ELSE @,
            !.calls = Append(@, Call("bring_to_top", << >>))]

\* projector::stop_projector (TerminateProcess): the window goes with the process
kill_projector(w) ==
  [w EXCEPT !.life = "dead", !.calls = Append(@, Call("terminate", << >>))]

\* with_state: v is the process w after the calls a closure made on it, the guard alive
with_state_calls(w, v) ==
  [v EXCEPT !.under_lock = @ \cup ((Len(w.calls) + 1) .. Len(v.calls))]

\* launcher::stop_projector, the native part: detach, then terminate
\* (stop_projector_native_kill_only terminates without detaching; C9 tells the two apart)
stop_projector_native_kill_only(s, ps) ==
  IF IsSome(s.projector)
  THEN [ps EXCEPT ![Unwrap(s.projector).pid] = kill_projector(@)]
  ELSE ps
stop_projector_native(s, ps) ==
  IF IsSome(s.projector)
  THEN LET h == Unwrap(s.projector) IN
       [ps EXCEPT ![h.pid] =
          with_state_calls(@, kill_projector(detach_child(@, h.original_style)))]
  ELSE ps

\* the child rect computed from the host client size and the scaled toolbar height
Max(a, b) == IF a >= b THEN a ELSE b
bar_height(scale_pct) == (UI_BAR_HEIGHT * scale_pct + 50) \div 100
\* (a variant that gives the child the whole client area; C13 tells the two apart)
child_rect_no_inset(h) == << 0, 0, h[1], h[2] >>
child_rect(h) ==
  LET bar_h == bar_height(h[3]) IN << 0, bar_h, h[1], Max(h[2] - bar_h, 1) >>

HostConfigs == { << 1024, 768, 100 >>, << 640, 30, 150 >> }

\* --------------------------------------------------------- capture input
\* Text is a sequence of one-character strings (the bytes of an ASCII &str).
UpperCase ==
  << "A", "B", "C", "D", "E", "F", "G", "H", "I", "J", "K", "L", "M",
     "N", "O", "P", "Q", "R", "S", "T", "U", "V", "W", "X", "Y", "Z" >>
LowerCase ==
  << "a", "b", "c", "d", "e", "f", "g", "h", "i", "j", "k", "l", "m",
     "n", "o", "p", "q", "r", "s", "t", "u", "v", "w", "x", "y", "z" >>
\* u8::to_ascii_lowercase
to_ascii_lowercase(c) ==
  IF \E k \in DOMAIN UpperCase : UpperCase[k] = c
  THEN LowerCase[CHOOSE k \in DOMAIN UpperCase : UpperCase[k] = c]
  ELSE c
\* u8::is_ascii_whitespace: space, tab, line feed, form feed, carriage return
is_ascii_whitespace(c) == c \in { " ", "\t", "\n", "\f", "\r" }

\* str::find / str::contains; find gives the 1-based index of the first match, 0 for None
StartsAt(text, i, needle) ==
  /\ i + Len(needle) - 1 <= Len(text)
  /\ \A k \in 1..Len(needle) : text[i + k - 1] = needle[k]
str_find(text, needle) ==
  IF \E i \in 1..Len(text) + 1 : StartsAt(text, i, needle)
  THEN CHOOSE i \in 1..Len(text) + 1 :
         /\ StartsAt(text, i, needle)
         /\ \A k \in 1..(i - 1) : ~StartsAt(text, k, needle)
  ELSE 0
str_contains(text, needle) == str_find(text, needle) # 0

\* starts_with_ignore_case(&bytes[i..], needle)
\* (a variant that tells the letter cases apart; C15 tells the two apart)
starts_with_ignore_case_exact(hay, i, needle) ==
  /\ Len(hay) - (i - 1) >= Len(needle)
  /\ \A k \in 1..Len(needle) : hay[i + k - 1] = needle[k]
starts_with_ignore_case(hay, i, needle) ==
  /\ Len(hay) - (i - 1) >= Len(needle)
  /\ \A k \in 1..Len(needle) :
       to_ascii_lowercase(hay[i + k - 1]) = to_ascii_lowercase(needle[k])

\* extract_attr_value, lines 263-265 and 270-272: skip ASCII whitespace from j
RECURSIVE skip_whitespace(_, _)
skip_whitespace(text, j) ==
  IF j <= Len(text) /\ is_ascii_whitespace(text[j])
  THEN skip_whitespace(text, j + 1)
  ELSE j

\* extract_attr_value, lines 291-300: the character an escape pushes
escaped_char(ch) ==
  CASE ch = "n" -> "\n"
    [] ch = "r" -> "\r"
    [] ch = "t" -> "\t"
    [] OTHER -> ch

\* the first index >= j of text that holds one of the characters in marks; 0 if none
next_index(text, j, marks) ==
  IF \E k \in j..Len(text) : text[k] \in marks
  THEN CHOOSE k \in j..Len(text) :
         /\ text[k] \in marks
         /\ \A m \in j..(k - 1) : text[m] \notin marks
  ELSE 0

\* extract_attr_value, lines 286-317: read the value from j up to the closing quote.
\* The loop pushes every character that is neither a backslash nor the quote as it is
\* (line 315), so a run of them is pushed at once; p is the next backslash or quote.
RECURSIVE read_value(_, _, _, _)
read_value(text, j, quote, out) ==
  LET p == next_index(text, j, { "\\", quote }) IN
  IF p = 0 THEN None
  ELSE IF text[p] = quote THEN Some(out \o SubSeq(text, j, p - 1))
  ELSE IF p + 1 > Len(text) THEN None
  ELSE read_value(text, p + 2, quote,
                  out \o SubSeq(text, j, p - 1) \o << escaped_char(text[p + 1]) >>)

\* extract_attr_value, lines 259-322.  The loop over i is written by its outcome: the
\* scan passes every i at which the name does not match (line 320), no '=' follows
\* (lines 266-269) or no quote follows (lines 281-284), and ends at the first other i:
\* with None when the text ends after '=' (lines 273-275), else with the value read.
after_name(text, attr, i) == skip_whitespace(text, i + Len(attr))
after_equals(text, attr, i) == skip_whitespace(text, after_name(text, attr, i) + 1)
has_equals(text, attr, i) ==
  after_name(text, attr, i) <= Len(text) /\ text[after_name(text, attr, i)] = "="
escaped_quote(text, j) ==
  /\ text[j] = "\\"
  /\ j + 1 <= Len(text)
  /\ text[j + 1] \in { "\"", "'" }
quote_at(text, j) == IF escaped_quote(text, j) THEN text[j + 1] ELSE text[j]
scan_ends(text, attr, i) ==
  /\ starts_with_ignore_case(text, i, attr)
  /\ has_equals(text, attr, i)
  /\ \/ after_equals(text, attr, i) > Len(text)
     \/ quote_at(text, after_equals(text, attr, i)) \in { "\"", "'" }
scan_range(text, attr) == { i \in 1..Len(text) : i - 1 + Len(attr) < Len(text) }
scan_attr(text, attr) ==
  IF \A i \in scan_range(text, attr) : ~scan_ends(text, attr, i) THEN None
  ELSE LET i == CHOOSE k \in scan_range(text, attr) :
                  /\ scan_ends(text, attr, k)
                  /\ \A m \in 1..(k - 1) : ~scan_ends(text, attr, m)
           j == after_equals(text, attr, i)
       IN IF j > Len(text) THEN None
          ELSE read_value(text, (IF escaped_quote(text, j) THEN j + 1 ELSE j) + 1,
                          quote_at(text, j), << >>)
extract_attr_value(text, attr) == scan_attr(text, attr)

\* unescape_source, lines 337-361.  Characters other than a backslash are pushed as
\* they are (line 358), so a run of them is pushed at once; p is the next backslash.
unescaped_pair(next) ==
  CASE next = "n" -> << "\n" >>
    [] next = "r" -> << "\r" >>
    [] next = "t" -> << "\t" >>
    [] next \in { "\"", "'", "\\" } -> << next >>
    [] OTHER -> << "\\", next >>
RECURSIVE unescape_from(_, _, _)
unescape_from(text, i, out) ==
  LET p == next_index(text, i, { "\\" }) IN
  IF p = 0 THEN out \o SubSeq(text, i, Len(text))
  ELSE IF p + 1 > Len(text) THEN out \o SubSeq(text, i, Len(text))
  ELSE unescape_from(text, p + 2, out \o SubSeq(text, i, p - 1) \o unescaped_pair(text[p + 1]))
\* (a variant that leaves the text as it is; C17 tells the two apart)
unescape_source_identity(text) == text
unescape_source(text) == unescape_from(text, 1, << >>)

Needle ==
  << "f", "u", "n", "c", "t", "i", "o", "n", " ", "s", "w", "f" >>
AttrLower ==
  << "f", "l", "a", "s", "h", "V", "a", "r", "s" >>
AttrUpper ==
  << "F", "l", "a", "s", "h", "V", "a", "r", "s" >>
KeyConfig ==
  << "c", "o", "n", "f", "i", "g", "=" >>
KeyAngelUin ==
  << "a", "n", "g", "e", "l", "_", "u", "i", "n", "=" >>

\* Option::or_else
or_else(a, b) == IF IsSome(a) THEN a ELSE b
\* the two lookups made on each text, lines 245, 248, 252
extract_flash_vars(text) ==
  or_else(extract_attr_value(text, AttrLower), extract_attr_value(text, AttrUpper))

\* parse_login3_value, lines 241-253
\* (a variant that settles for the src attribute when it finds no flashVars; C18 tells the
\* two apart)
parse_login3_value_or_src(page) ==
  or_else(extract_flash_vars(page), extract_attr_value(page, << "s", "r", "c" >>))
parse_login3_value(page) ==
  LET start == str_find(page, Needle) IN
  IF start = 0 THEN None
  ELSE LET slice == SubSeq(page, start, Len(page))
           in_slice == extract_flash_vars(slice)
       IN IF IsSome(in_slice) THEN in_slice
          ELSE LET in_html == extract_flash_vars(page) IN
               IF IsSome(in_html) THEN in_html
               ELSE extract_flash_vars(unescape_source(page))

\* handle_login3_response, line 181
\* (a variant that asks for config= only; C20 tells the two apart)
has_required_params_config_only(value) == str_contains(value, KeyConfig)
has_required_params(value) ==
  str_contains(value, KeyConfig) /\ str_contains(value, KeyAngelUin)

\* build_swf_url, line 364: trim, then the leading '?'s, then the leading '&'s
is_whitespace(c) == c \in { " ", "\t", "\n", "\f", "\r" }
RECURSIVE trim_start_while(_, _)
trim_start_while(text, drop) ==
  IF text # << >> /\ Head(text) \in drop THEN trim_start_while(Tail(text), drop) ELSE text
RECURSIVE trim_end(_)
trim_end(text) ==
  IF text # << >> /\ is_whitespace(text[Len(text)])
  THEN trim_end(SubSeq(text, 1, Len(text) - 1))
  ELSE text
trimmed_value(value) ==
  trim_start_while(
    trim_start_while(trim_end(trim_start_while(value, { " ", "\t", "\n", "\f", "\r" })),
                     { "?" }),
    { "&" })
\* build_swf_url, lines 363-372 (the nonce is left out of the model)
build_swf_url(value) ==
  IF trimmed_value(value) = << >>
  THEN None
  ELSE Some([base |-> "https://res.17roco.qq.com/main.swf", query |-> trimmed_value(value)])

\* ------------------------------------------------------------- redaction
\* redact_tokens, line 31
NameAngelUin == << "a", "n", "g", "e", "l", "_", "u", "i", "n" >>
NameAngelKey == << "a", "n", "g", "e", "l", "_", "k", "e", "y" >>
NameSkey == << "s", "k", "e", "y" >>
NamePskey == << "p", "s", "k", "e", "y" >>
\* (a variant of the list without angel_key; C22 tells the two apart)
keys_without_angel_key == << NameAngelUin, NameSkey, NamePskey >>
keys == << NameAngelUin, NameAngelKey, NameSkey, NamePskey >>
\* redact_tokens, line 39: key number n stands at i and `=` follows it
key_at(text, i, n) ==
  /\ StartsAt(text, i, keys[n])
  /\ i - 1 + Len(keys[n]) < Len(text)
  /\ text[i + Len(keys[n])] = "="
\* redact_tokens, lines 37-43: the first key of the list that stands at i (0: none)
matched(text, i) ==
  IF \E n \in DOMAIN keys : key_at(text, i, n)
  THEN CHOOSE n \in DOMAIN keys : key_at(text, i, n) /\ \A m \in 1..(n - 1) : ~key_at(text, i, m)
  ELSE 0
\* redact_tokens, lines 48-54: the value ends before the next of & " ' < > or at the end
ValueStops == { "&", "\"", "'", "<", ">" }
value_end(text, j) ==
  LET p == next_index(text, j, ValueStops) IN IF p = 0 THEN Len(text) + 1 ELSE p
\* the first index >= i at which a key stands; 0 if none
next_match(text, i) ==
  IF \E k \in i..Len(text) : matched(text, k) # 0
  THEN CHOOSE k \in i..Len(text) :
         matched(text, k) # 0 /\ \A m \in i..(k - 1) : matched(text, m) = 0
  ELSE 0
\* redact_tokens, lines 30-62.  Bytes at which no key stands are pushed as they are
\* (lines 58-59), so a run of them is pushed at once; p is the next position of a key.
RECURSIVE redact_from(_, _, _)
redact_from(text, i, out) ==
  LET p == next_match(text, i) IN
  IF p = 0 THEN out \o SubSeq(text, i, Len(text))
  ELSE LET key == keys[matched(text, p)] IN
       redact_from(text, value_end(text, p + Len(key) + 1),
                   out \o SubSeq(text, i, p - 1) \o key \o << "=", "*" >>)
redact_tokens(text) == redact_from(text, 1, << >>)
\* redact_value, lines 73-75
redact_value(value) == redact_tokens(value)

\* ------------------------------------------------------- response bodies
\* A body is put together from parts; its make-up is kept beside it so that a result can
\* be related to the parts.
ScriptOpen ==
  << "(", "i", "d", ")", "{", "v", "a", "r", " ", "s", "=", "'", "<", "e", "m", "b", "e",
  "d", " " >>
EmbedOpen ==
  << "<", "e", "m", "b", "e", "d", " " >>
ParamName ==
  << "n", "a", "m", "e", "=", "\"" >>
ParamValue ==
  << "\"", " ", "v", "a", "l", "u", "e", "=", "\"" >>
SrcAttr ==
  << "s", "r", "c", "=" >>
AttrCaps ==
  << "F", "L", "A", "S", "H", "V", "A", "R", "S" >>
BlobFull ==
  << "c", "o", "n", "f", "i", "g", "=", "/", "/", "r", "/", "G", ".", "x", "m", "l", "&",
  "a", "n", "g", "e", "l", "_", "u", "i", "n", "=", "1", "2", "3", "&", "s", "k", "e", "y",
  "=", "d" >>
BlobSwapped ==
  << "a", "n", "g", "e", "l", "_", "u", "i", "n", "=", "1", "&", "c", "o", "n", "f", "i",
  "g", "=", "x" >>
BlobNoUin ==
  << "c", "o", "n", "f", "i", "g", "=", "x", "&", "s", "k", "e", "y", "=", "d" >>
BlobNoConfig ==
  << "a", "n", "g", "e", "l", "_", "u", "i", "n", "=", "1", "&", "s", "k", "e", "y", "=",
  "d" >>
TagClose ==
  << " ", "/", ">" >>
ScriptClose ==
  << " ", "/", ">", "\"", ";", "}" >>
PagePrefix ==
  << "<", "s", "c", "r", "i", "p", "t", ">" >>

Forms == { "attr", "param", "escaped", "none" }
Shapes ==
  [ pre : { << >>, PagePrefix },
    anchor : BOOLEAN,
    form : Forms,
    name : { AttrLower, AttrUpper, AttrCaps },
    ws1 : { << >>, << " " >>, << "\t", "\n" >> },
    ws2 : { << >>, << " " >>, << "\r", "\f" >> },
    quote : { "\"", "'" },
    blob : { BlobFull, BlobSwapped, BlobNoUin },
    suf : { TagClose, ScriptClose } ]

\* the attribute as the page writes it
Core(shape) ==
  CASE shape.form = "attr" ->
         shape.name \o shape.ws1 \o << "=" >> \o shape.ws2
           \o << shape.quote >> \o shape.blob \o << shape.quote >>
    [] shape.form = "escaped" ->
         shape.name \o shape.ws1 \o << "=" >> \o shape.ws2
           \o << "\\", shape.quote >> \o shape.blob \o << "\\", shape.quote >>
    [] shape.form = "param" ->
         ParamName \o shape.name \o ParamValue \o shape.blob \o << "\"" >>
    [] OTHER -> SrcAttr \o << shape.quote >> \o shape.blob \o << shape.quote >>
Body(shape) ==
  shape.pre \o (IF shape.anchor THEN Needle \o ScriptOpen ELSE EmbedOpen)
            \o Core(shape) \o shape.suf

\* the bodies the response callback is given in the state machine
PlainShape ==
  [ pre |-> << >>, anchor |-> TRUE, form |-> "attr", name |-> AttrLower, ws1 |-> << >>,
    ws2 |-> << >>, quote |-> "\"", blob |-> BlobFull, suf |-> TagClose ]
Bodies ==
  { << >>,
    Body(PlainShape),
    Body([PlainShape EXCEPT !.blob = BlobNoUin]),
    Body([PlainShape EXCEPT !.blob = BlobNoConfig]),
    Body([PlainShape EXCEPT !.form = "none"]),
    Body([PlainShape EXCEPT !.form = "none", !.anchor = FALSE]) }

\* handle_login3_response, line 174: the parse of each body the callback is given
Parsed == [ body \in Bodies |-> parse_login3_value(body) ]

\* no function was called on its own
NoCall == [ fn |-> "none", of |-> << >>, val |-> None ]

\* ------------------------------------------------------------- threads
\* a caller thread with no command in progress
Idle ==
  [ pc |-> "idle", swf |-> None, pid |-> 0, style |-> 0, flag |-> 0, hwnd |-> 0,
    rect |-> None, msg |-> None ]
At(t, pc) == thr[t].pc = pc
Goto(t, pc) == thr' = [thr EXCEPT ![t].pc = pc]
Return(t) == thr' = [thr EXCEPT ![t] = Idle]
\* the step is recorded; only handle_login3_response is handed a body
Did(op) == last' = [op |-> op, err |-> None, note |-> ""] /\ html' = << >> /\ ret' = ret
DidErr(op, msg) ==
  last' = [op |-> op, err |-> Some(msg), note |-> ""] /\ html' = << >> /\ ret' = ret
DidNote(op, note) == last' = [op |-> op, err |-> None, note |-> note] /\ ret' = ret
\* a command or callback is invoked on an idle caller thread
Begin(t) == At(t, "idle") /\ ops < MaxOps /\ ops' = ops + 1

InitApp ==
  /\ state = AppStateNew
  /\ flags = [f \in Flags |-> FALSE]
  /\ nflags = 0
  /\ watcher = [f \in Flags |-> "none"]
  /\ procs = [p \in Pids |-> ProcNew]
  /\ host = << 1024, 768, 100 >>
  /\ thr = [t \in Callers |-> Idle]
  /\ queue = 0
  /\ event = None
  /\ ops = 0
  /\ last = [op |-> "init", err |-> None, note |-> ""]
  /\ accepts = 0
  /\ owed = 0
  /\ acc = {}
  /\ stopped = {}
Init == InitApp /\ html = << >> /\ ret = NoCall


\* ------------------------------------------- login3_capture: start, stop
hist == << accepts, owed, acc, stopped >>
\* the session whose flag capture_stop holds, as a set
Session(s) == { s.capture_stop[i] : i \in DOMAIN s.capture_stop }

\* start, line 111: stop_inner; the new session's flag is created (line 113)
start_capture(t) ==
  /\ Begin(t)
  /\ nflags < MaxSessions
  /\ nflags' = nflags + 1
  /\ flags' = stop_inner_flags(state, flags)
  /\ state' = stop_inner_state(state)
  /\ thr' = [thr EXCEPT ![t].pc = "start_set", ![t].flag = nflags + 1]
  /\ Did("start_capture")
  /\ UNCHANGED << watcher, procs, host, queue, event, hist >>

\* start, lines 114-119
start_set(t) ==
  /\ At(t, "start_set")
  /\ state' = start_state(state, thr[t].flag)
  /\ accepts' = 0
  /\ Goto(t, "start_emit")
  /\ Did("start_set")
  /\ UNCHANGED << flags, nflags, watcher, procs, host, queue, event, ops, owed, acc, stopped >>

\* start, lines 120-122: emit_status, then start_timeout spawns the watcher thread
start_emit(t) ==
  /\ At(t, "start_emit")
  /\ event' = StatusPayload(state)
  /\ watcher' = [watcher EXCEPT ![thr[t].flag] = "poll"]
  /\ Return(t)
  /\ Did("start_emit")
  /\ UNCHANGED << state, flags, nflags, procs, host, queue, ops, hist >>

\* stop, line 128: stop_inner
stop_capture(t) ==
  /\ Begin(t)
  /\ flags' = stop_inner_flags(state, flags)
  /\ state' = stop_inner_state(state)
  /\ stopped' = stopped \cup Session(state)
  /\ Goto(t, "stop_set")
  /\ Did("stop_capture")
  /\ UNCHANGED << nflags, watcher, procs, host, queue, event, accepts, owed, acc >>

\* stop, lines 129-133
stop_set(t) ==
  /\ At(t, "stop_set")
  /\ state' = stop_state(state)
  /\ accepts' = 0
  /\ Goto(t, "stop_emit")
  /\ Did("stop_set")
  /\ UNCHANGED << flags, nflags, watcher, procs, host, queue, event, ops, owed, acc, stopped >>

\* stop, line 134
stop_emit(t) ==
  /\ At(t, "stop_emit")
  /\ event' = StatusPayload(state)
  /\ Return(t)
  /\ Did("stop_emit")
  /\ UNCHANGED << state, flags, nflags, watcher, procs, host, queue, ops, hist >>

\* ------------------------------------------------- the timeout watcher
\* start_timeout, lines 150-155: a poll tick that sees the flag set ends the thread
watcher_poll(f) ==
  /\ watcher[f] = "poll"
  /\ flags[f]
  /\ watcher' = [watcher EXCEPT ![f] = "done"]
  /\ Did("watcher_poll")
  /\ UNCHANGED << state, flags, nflags, procs, host, thr, queue, event, ops, hist >>

\* start_timeout, lines 150, 156-158: the deadline passes; the flag is read once more
watcher_deadline(f) ==
  /\ watcher[f] = "poll"
  /\ watcher' = [watcher EXCEPT ![f] = IF flags[f] THEN "done" ELSE "lock"]
  /\ Did("watcher_deadline")
  /\ UNCHANGED << state, flags, nflags, procs, host, thr, queue, event, ops, hist >>

\* start_timeout, lines 159-169: under the lock; emit_status is called inside it
watcher_fire(f) ==
  /\ watcher[f] = "lock"
  /\ watcher' = [watcher EXCEPT ![f] = "done"]
  /\ IF timeout_applies(state)
     THEN /\ state' = timeout_state(state)
          /\ event' = StatusPayload(timeout_state(state))
     ELSE UNCHANGED << state, event >>
  /\ Did("watcher_fire")
  /\ UNCHANGED << flags, nflags, procs, host, thr, queue, ops, hist >>

\* ------------------------------------------------ handle_login3_response
\* lines 173-214: parse, validate, build the url, then the accepting critical section
handle_login3_response(t) ==
  /\ Begin(t)
  /\ \E body \in Bodies :
       /\ html' = body
       /\ LET value == Parsed[body]
              ok == IsSome(value) /\ has_required_params(Unwrap(value))
              url == IF ok THEN build_swf_url(Unwrap(value)) ELSE None
          IN IF ok /\ IsSome(url) /\ should_emit(state)
             THEN /\ state' = accept_state(state, Unwrap(url))
                  /\ accepts' = accepts + 1
                  /\ owed' = owed + 1
                  /\ acc' = acc \cup Session(state)
                  /\ Goto(t, "h_emit_found")
                  /\ DidNote("handle_login3_response", "accepted")
             ELSE /\ UNCHANGED << state, accepts, owed, acc, thr >>
                  /\ DidNote("handle_login3_response",
                             IF ~IsSome(value) THEN "no_value"
                             ELSE IF ~ok THEN "missing_params" ELSE "not_accepted")
  /\ UNCHANGED << flags, nflags, watcher, procs, host, queue, event, stopped >>

\* line 218
handle_emit_found(t) ==
  /\ At(t, "h_emit_found")
  /\ event' = StatusPayload(state)
  /\ Goto(t, "h_launching")
  /\ Did("handle_emit_found")
  /\ UNCHANGED << state, flags, nflags, watcher, procs, host, queue, ops, hist >>

\* lines 219-222
handle_launching(t) ==
  /\ At(t, "h_launching")
  /\ state' = launching_state(state)
  /\ Goto(t, "h_emit_launching")
  /\ Did("handle_launching")
  /\ UNCHANGED << flags, nflags, watcher, procs, host, queue, event, ops, hist >>

\* line 223
handle_emit_launching(t) ==
  /\ At(t, "h_emit_launching")
  /\ event' = StatusPayload(state)
  /\ Goto(t, "h_schedule")
  /\ Did("handle_emit_launching")
  /\ UNCHANGED << state, flags, nflags, watcher, procs, host, queue, ops, hist >>

\* lines 224-229: stop_timer_only, then the launch is posted to the main thread
handle_schedule(t) ==
  /\ At(t, "h_schedule")
  /\ flags' = stop_timer_only_flags(state, flags)
  /\ queue' = queue + 1
  /\ owed' = owed - 1
  /\ Return(t)
  /\ Did("handle_schedule")
  /\ UNCHANGED << state, nflags, watcher, procs, host, event, ops, accepts, acc, stopped >>

\* ---------------------------------------------------- launcher, commands
worldless == << flags, nflags, watcher, host, queue, event, hist >>
Spawned == { p \in Pids : procs[p].life # "unborn" }
FreshPid == Cardinality(Spawned) + 1

\* launch_projector_auto, lines 105-119: the validating read
\* (a variant that looks at swf_url before it stops the projector in place; C36 tells
\* the two apart)
validated_url_first(t) ==
  [thr[t] EXCEPT !.pc = IF IsSome(state.projector) /\ IsSome(state.swf_url)
                        THEN "l_stop" ELSE "l_body",
                 !.swf = state.swf_url]
validated(t) ==
  [thr[t] EXCEPT !.pc = IF IsSome(state.projector) THEN "l_stop" ELSE "l_body",
                 !.swf = state.swf_url]

\* the launch_projector command: main.rs 306-332, into launch_projector_auto
launch_projector(t) ==
  /\ Begin(t)
  /\ thr' = [thr EXCEPT ![t] = validated(t)]
  /\ Did("launch_projector")
  /\ UNCHANGED << state, procs, worldless >>

\* the closure posted by handle_login3_response runs launch_projector_auto
run_scheduled_launch(t) ==
  /\ At(t, "idle")
  /\ queue > 0
  /\ queue' = queue - 1
  /\ thr' = [thr EXCEPT ![t] = validated(t)]
  /\ Did("run_scheduled_launch")
  /\ UNCHANGED << state, procs, flags, nflags, watcher, host, event, ops, hist >>

\* restart_projector: main.rs 362, stop_projector_command
restart_projector(t) ==
  /\ Begin(t)
  /\ procs' = stop_projector_native(state, procs)
  /\ state' = stop_projector_state(state)
  /\ Goto(t, "l_read")
  /\ Did("restart_projector")
  /\ UNCHANGED worldless

\* restart_projector / change_channel continue into launch_projector_auto
launch_validate(t) ==
  /\ At(t, "l_read")
  /\ thr' = [thr EXCEPT ![t] = validated(t)]
  /\ Did("launch_validate")
  /\ UNCHANGED << state, procs, worldless, ops >>

\* launch_projector_auto, lines 116-119
launch_stop_existing(t) ==
  /\ At(t, "l_stop")
  /\ procs' = stop_projector_native(state, procs)
  /\ state' = stop_projector_state(state)
  /\ Goto(t, "l_body")
  /\ Did("launch_stop_existing")
  /\ UNCHANGED << worldless, ops >>

\* what the environment lets a launch do (stages 2-6)
LaunchOutcomes == { "resolve_failed", "spawn_failed", "window_not_found", "no_host_handle",
                    "size_failed", "embedded" }
launch_error(outcome) ==
  CASE outcome = "resolve_failed" -> MsgResolve
    [] outcome = "spawn_failed" -> MsgSpawn
    [] outcome = "window_not_found" -> MsgNoWindow
    [] outcome = "no_host_handle" -> MsgNoHost
    [] OTHER -> MsgNoSize
\* the native calls a launch makes on its new process, by outcome
\* (a variant that attaches the window before hiding it; C32 tells the two apart)
launch_native_attach_first(w, outcome, h) ==
  CASE outcome \in { "resolve_failed", "spawn_failed" } -> w
    [] outcome = "window_not_found" -> spawned(w)
    [] outcome = "no_host_handle" -> hide_window(window_created(spawned(w)))
    [] outcome = "size_failed" -> hide_window(attach_child(window_created(spawned(w))))
    [] OTHER ->
         bring_to_top(move_child(hide_window(attach_child(window_created(spawned(w)))),
                                 child_rect(h)))
\* (a variant that terminates the process when its window is not found; C26 tells the
\* two apart)
launch_native_reaping(w, outcome, h) ==
  CASE outcome \in { "resolve_failed", "spawn_failed" } -> w
    [] outcome = "window_not_found" -> kill_projector(spawned(w))
    [] outcome = "no_host_handle" -> hide_window(window_created(spawned(w)))
    [] outcome = "size_failed" -> attach_child(hide_window(window_created(spawned(w))))
    [] OTHER ->
         bring_to_top(move_child(attach_child(hide_window(window_created(spawned(w)))),
                                 child_rect(h)))
launch_native(w, outcome, h) ==
  CASE outcome \in { "resolve_failed", "spawn_failed" } -> w
    [] outcome = "window_not_found" -> spawned(w)
    [] outcome = "no_host_handle" -> hide_window(window_created(spawned(w)))
    [] outcome = "size_failed" -> attach_child(hide_window(window_created(spawned(w))))
    [] OTHER ->
         bring_to_top(move_child(attach_child(hide_window(window_created(spawned(w)))),
                                 child_rect(h)))
\* the failures that go through set_error (lines 129, 144, 161, 177, 193, 209)
reports_error(outcome) == outcome # "size_failed"

\* launch_projector_auto, lines 121-270
launch_body(t) ==
  /\ At(t, "l_body")
  /\ IF ~IsSome(thr[t].swf)
     THEN /\ state' = set_error(state, MsgMissingUrl)
          /\ thr' = [thr EXCEPT ![t].pc = "l_error", ![t].msg = Some(MsgMissingUrl)]
          /\ Did("launch_body")
          /\ UNCHANGED procs
     ELSE \E outcome \in LaunchOutcomes :
            /\ outcome \in { "resolve_failed", "spawn_failed" } \/ FreshPid <= MaxProcs
            /\ LET p == IF FreshPid <= MaxProcs THEN FreshPid ELSE MaxProcs
                   w == launch_native(procs[p], outcome, host)
               IN /\ procs' = [procs EXCEPT ![p] = w]
                  /\ IF outcome = "embedded"
                     THEN /\ thr' = [thr EXCEPT ![t].pc = "l_record", ![t].pid = p,
                                                ![t].style = procs'[p].calls[2].arg[1]]
                          /\ Did("launch_body")
                          /\ UNCHANGED state
                     ELSE IF reports_error(outcome)
                     THEN /\ state' = set_error(state, launch_error(outcome))
                          /\ thr' = [thr EXCEPT ![t].pc = "l_error",
                                                ![t].msg = Some(launch_error(outcome))]
                          /\ Did("launch_body")
                     ELSE /\ Return(t)
                          /\ DidErr("launch_return", launch_error(outcome))
                          /\ UNCHANGED state
  /\ UNCHANGED << worldless, ops >>

\* set_error, line 73, then return Err(msg)
launch_error_emit(t) ==
  /\ At(t, "l_error")
  /\ event' = StatusPayload(state)
  /\ Return(t)
  /\ DidErr("launch_return", Unwrap(thr[t].msg))
  /\ UNCHANGED << state, procs, flags, nflags, watcher, host, queue, ops, hist >>

\* launch_projector_auto, lines 276-293
launch_record(t) ==
  /\ At(t, "l_record")
  /\ state' = running_state(state, thr[t].pid, thr[t].style)
  /\ Goto(t, "l_emit")
  /\ Did("launch_record")
  /\ UNCHANGED << procs, worldless, ops >>

\* launch_projector_auto, lines 295-313
launch_emit(t) ==
  /\ At(t, "l_emit")
  /\ event' = StatusPayload(state)
  /\ Return(t)
  /\ Did("launch_return")
  /\ UNCHANGED << state, procs, flags, nflags, watcher, host, queue, ops, hist >>

\* the stop_projector command: main.rs 344-351
stop_projector(t) ==
  /\ Begin(t)
  /\ procs' = stop_projector_native(state, procs)
  /\ state' = stop_projector_state(state)
  /\ Goto(t, "sp_emit")
  /\ Did("stop_projector")
  /\ UNCHANGED worldless
stop_projector_emit(t) ==
  /\ At(t, "sp_emit")
  /\ event' = StatusPayload(state)
  /\ Return(t)
  /\ Did("stop_projector_emit")
  /\ UNCHANGED << state, procs, flags, nflags, watcher, host, queue, ops, hist >>

\* change_channel: main.rs 377-419
change_channel(t) ==
  /\ Begin(t)
  /\ IF ~IsSome(state.projector)
     THEN Goto(t, "r_stop") /\ Did("change_channel")
     ELSE IF ~IsSome(state.swf_url)
     THEN UNCHANGED thr /\ DidErr("change_channel", "Missing swf url.")
     ELSE Goto(t, "l_read") /\ Did("change_channel")
  /\ UNCHANGED << state, procs, worldless >>

\* reset_to_login: main.rs 421-511
reset_to_login(t) ==
  /\ Begin(t)
  /\ Goto(t, "r_stop")
  /\ Did("reset_to_login")
  /\ UNCHANGED << state, procs, worldless >>
\* line 431
reset_stop_projector(t) ==
  /\ At(t, "r_stop")
  /\ procs' = stop_projector_native(state, procs)
  /\ state' = stop_projector_state(state)
  /\ Goto(t, "r_timer")
  /\ Did("reset_stop_projector")
  /\ UNCHANGED << worldless, ops >>
\* line 432
reset_stop_timer(t) ==
  /\ At(t, "r_timer")
  /\ flags' = stop_timer_only_flags(state, flags)
  /\ Goto(t, "r_state")
  /\ Did("reset_stop_timer")
  /\ UNCHANGED << state, procs, nflags, watcher, host, queue, event, ops, hist >>
\* lines 439-448
reset_state_set(t) ==
  /\ At(t, "r_state")
  /\ state' = reset_state(state)
  /\ accepts' = 0
  /\ Goto(t, "r_show")
  /\ Did("reset_state_set")
  /\ UNCHANGED << procs, flags, nflags, watcher, host, queue, event, ops, owed, acc, stopped >>
\* lines 452-510: the login webview is shown and navigated, or the command fails;
\* the status is emitted only at the end
reset_show_login(t) ==
  /\ At(t, "r_show")
  /\ \E shown \in BOOLEAN :
       IF shown
       THEN event' = StatusPayload(state) /\ Did("reset_return")
       ELSE UNCHANGED event /\ DidErr("reset_return", MsgLoginView)
  /\ Return(t)
  /\ UNCHANGED << state, procs, flags, nflags, watcher, host, queue, ops, hist >>

\* resize_projector_to_window, lines 343-348
\* (a variant that does not read last_projector_rect; C14 tells the two apart)
resize_read_forgetful(t) ==
  IF IsSome(state.projector)
  THEN [thr[t] EXCEPT !.pc = "z_move", !.hwnd = Unwrap(state.projector).hwnd]
  ELSE thr[t]
resize_read(t) ==
  IF IsSome(state.projector)
  THEN [thr[t] EXCEPT !.pc = "z_move", !.hwnd = Unwrap(state.projector).hwnd,
                      !.rect = state.last_projector_rect]
  ELSE thr[t]
\* the resize_projector command: main.rs 334-338
resize_projector(t) ==
  /\ Begin(t)
  /\ thr' = [thr EXCEPT ![t] = resize_read(t)]
  /\ Did("resize_projector")
  /\ UNCHANGED << state, procs, worldless >>
\* WindowEvent::Resized: main.rs 1013-1023
on_window_resized(t) ==
  /\ Begin(t)
  /\ \E hc \in HostConfigs \ { host } : host' = hc
  /\ thr' = [thr EXCEPT ![t] = resize_read(t)]
  /\ Did("on_window_resized")
  /\ UNCHANGED << state, procs, flags, nflags, watcher, queue, event, hist >>
\* resize_projector_to_window, lines 350-382
resize_apply(t) ==
  /\ At(t, "z_move")
  /\ \E known \in BOOLEAN :
       LET rect == IF known THEN Some(child_rect(host)) ELSE None IN
       IF ~IsSome(rect)
       THEN UNCHANGED << state, procs >> /\ DidNote("resize_apply", "no_rect")
       ELSE IF rect = thr[t].rect
       THEN UNCHANGED << state, procs >> /\ DidNote("resize_apply", "same_rect")
       ELSE /\ procs' = [procs EXCEPT
                  ![thr[t].hwnd] = bring_to_top(move_child(@, Unwrap(rect)))]
            /\ state' = [state EXCEPT !.last_projector_rect = rect]
            /\ DidNote("resize_apply", "moved")
  /\ html' = << >>
  /\ Return(t)
  /\ UNCHANGED << worldless, ops >>

Next ==
  \/ \E t \in Callers :
       \/ start_capture(t) \/ start_set(t) \/ start_emit(t)
       \/ stop_capture(t) \/ stop_set(t) \/ stop_emit(t)
       \/ handle_login3_response(t) \/ handle_emit_found(t) \/ handle_launching(t)
       \/ handle_emit_launching(t) \/ handle_schedule(t)
       \/ launch_projector(t) \/ run_scheduled_launch(t) \/ restart_projector(t)
       \/ launch_validate(t) \/ launch_stop_existing(t) \/ launch_body(t)
       \/ launch_error_emit(t) \/ launch_record(t) \/ launch_emit(t)
       \/ stop_projector(t) \/ stop_projector_emit(t)
       \/ change_channel(t)
       \/ reset_to_login(t) \/ reset_stop_projector(t) \/ reset_stop_timer(t)
       \/ reset_state_set(t) \/ reset_show_login(t)
       \/ resize_projector(t) \/ on_window_resized(t) \/ resize_apply(t)
  \/ \E f \in Flags : watcher_poll(f) \/ watcher_deadline(f) \/ watcher_fire(f)

Spec == Init /\ [][Next]_vars


\* the commands and callbacks run one at a time (all on the main thread); only the
\* watcher threads run concurrently with them
SeqNext == Next /\ Cardinality({ t \in Callers : thr'[t].pc # "idle" }) <= 1
SeqSpec == Init /\ [][SeqNext]_vars

\* the watcher threads run: each of their steps is eventually taken
LiveSpec ==
  /\ Spec
  /\ \A f \in Flags :
       /\ WF_vars(watcher_poll(f))
       /\ WF_vars(watcher_deadline(f))
       /\ WF_vars(watcher_fire(f))

\* ------------------------------------------------ functions on their own
\* A text is made of key=value pairs joined by `&`; its make-up is kept beside it, with
\* another value for the secrets of a second text that differs from it only in them.
NameFoo == << "f", "o", "o" >>
NameXskey == << "x", "s", "k", "e", "y" >>
QueryNames == { NameAngelUin, NameAngelKey, NameSkey, NamePskey, NameFoo, NameXskey }
ValueBar == << "b", "a", "r" >>
ValueSecret == << "S", "E", "C", "R", "E", "T", "1", "2", "3" >>
ValueQuoted == << "a", "\"", "b" >>
QueryValues == { << >>, ValueBar, ValueSecret, ValueQuoted }
QueryPairs == [ key : QueryNames, val : QueryValues ]
Queries == UNION { [1..n -> QueryPairs] : n \in 1..MaxPairs }
SecretNames == { NameAngelUin, NameAngelKey, NameSkey, NamePskey }
RECURSIVE QueryFrom(_, _)
QueryFrom(pairs, n) ==
  IF n > Len(pairs) THEN << >>
  ELSE (IF n > 1 THEN << "&" >> ELSE << >>)
         \o pairs[n].key \o << "=" >> \o pairs[n].val \o QueryFrom(pairs, n + 1)
QueryText(pairs) == QueryFrom(pairs, 1)
\* the same pairs with every secret value replaced by other
WithSecrets(pairs, other) ==
  [n \in DOMAIN pairs |->
     IF pairs[n].key \in SecretNames THEN [pairs[n] EXCEPT !.val = other] ELSE pairs[n]]

\* parse_login3_value is called on one body, put together from any parts;
\* redact_tokens is called on one text and on the text with the other secrets
\* the styles a window may have when attach_child reads it: any combination of the
\* bits the function touches and one it does not (WS_VSCROLL)
StyleBits == { WS_OVERLAPPEDWINDOW, WS_POPUP, WS_CHILD, WS_VISIBLE, 32 }
RECURSIVE StyleOf(_)
StyleOf(bits) ==
  IF bits = {} THEN 0
  ELSE LET b == CHOOSE b \in bits : TRUE IN BitOr(b, StyleOf(bits \ {b}))
Styles == { StyleOf(bits) : bits \in SUBSET StyleBits }

\* the top-level windows one EnumWindows pass reports, in its order; a window's handle
\* is its place in the pass
Windows == [ pid : Pids, owner : BOOLEAN, visible : BOOLEAN ]
Enumerations == UNION { [1..n -> Windows] : n \in 0..MaxWindows }
FindData(pid) == [ pid |-> pid, hwnd |-> 0 ]
\* the calls of find_window_by_pid: the process looked for and the timeout, in sleeps
\* of 100 ms (0 is a timeout_ms of 0); no pass made and no time gone yet
Timeouts == 0..(MaxPolls - 1)
FindCalls ==
  [ pid : Pids, timeout : Timeouts, polls : {0}, elapsed : {0}, windows : { << >> } ]
\* (a variant that gives up as soon as the timeout is reached; C40 tells the two apart)
timeout_reached(elapsed, timeout) == elapsed >= timeout
\* find_window_by_pid, line 50: start.elapsed() > timeout
timeout_over(elapsed, timeout) == elapsed > timeout
\* (a variant that takes visible windows only; C25 tells the two apart)
enum_windows_proc_visible_only(hwnd, window, data) ==
  IF window.pid # data.pid THEN [ data |-> data, more |-> TRUE ]
  ELSE IF ~window.owner /\ window.visible
  THEN [ data |-> [data EXCEPT !.hwnd = hwnd], more |-> FALSE ]
  ELSE [ data |-> data, more |-> TRUE ]
\* enum_windows_proc: the callback, its BOOL result in "more"
enum_windows_proc(hwnd, window, data) ==
  IF window.pid # data.pid THEN [ data |-> data, more |-> TRUE ]
  ELSE IF ~window.owner /\ window.visible
  THEN [ data |-> [data EXCEPT !.hwnd = hwnd], more |-> FALSE ]
  ELSE IF ~window.owner
  THEN [ data |-> [data EXCEPT !.hwnd = hwnd], more |-> FALSE ]
  ELSE [ data |-> data, more |-> TRUE ]
\* EnumWindows: calls the callback on each window until it answers FALSE
RECURSIVE EnumWindowsFrom(_, _, _)
EnumWindowsFrom(windows, hwnd, data) ==
  IF hwnd > Len(windows) THEN data
  ELSE LET r == enum_windows_proc(hwnd, windows[hwnd], data)
       IN IF r.more THEN EnumWindowsFrom(windows, hwnd + 1, r.data) ELSE r.data
EnumWindows(windows, data) == EnumWindowsFrom(windows, 1, data)

\* captured values as the handler may get them from a page: a parameter blob with a few
\* separator or blank characters in front
LeadChars == { "?", "&", " " }
Leads == UNION { [1..n -> LeadChars] : n \in 0..MaxLead }
LeadBlobs == { BlobFull, BlobSwapped, BlobNoUin }

ParseInit ==
  /\ InitApp
  /\ \/ \E shape \in Shapes :
          /\ html = Body(shape)
          /\ ret = [ fn |-> "none", of |-> shape, val |-> None ]
     \/ \E pairs \in Queries, other \in QueryValues :
          /\ html = QueryText(pairs)
          /\ ret = [ fn |-> "text", of |-> [ pairs |-> pairs, other |-> other ], val |-> None ]
     \/ \E lead \in Leads, blob \in LeadBlobs :
          /\ html = lead \o blob
          /\ ret = [ fn |-> "value", of |-> [ lead |-> lead, blob |-> blob ], val |-> None ]
     \/ \E style \in Styles :
          /\ html = << >>
          /\ ret = [ fn |-> "window", of |-> style, val |-> None ]
     \/ \E call \in FindCalls :
          /\ html = << >>
          /\ ret = [ fn |-> "find", of |-> call, val |-> None ]
call_parse_login3_value ==
  /\ ret.fn = "none"
  /\ ret' = [ret EXCEPT !.fn = "parse_login3_value", !.val = parse_login3_value(html)]
  /\ UNCHANGED << state, flags, nflags, watcher, procs, host, thr, queue, event, ops,
                  last, accepts, owed, acc, stopped, html >>
call_redact_tokens ==
  /\ ret.fn = "text"
  /\ ret' = [ret EXCEPT
       !.fn = "redact_tokens",
       !.val = << redact_value(html),
                  redact_value(QueryText(WithSecrets(ret.of.pairs, ret.of.other))) >>]
  /\ UNCHANGED << state, flags, nflags, watcher, procs, host, thr, queue, event, ops,
                  last, accepts, owed, acc, stopped, html >>
\* embed_win32::attach_child on a top-level window of style ret.of, then detach_child
\* with the value attach_child returned
call_attach_child ==
  /\ ret.fn = "window"
  /\ LET w == [window_created(spawned(procs[1])) EXCEPT !.style = ret.of]
     IN /\ procs' = [procs EXCEPT ![1] = attach_child(w)]
        /\ ret' = [ret EXCEPT !.fn = "attach_child",
                              !.val = Some(procs'[1].calls[1].arg[1])]
  /\ UNCHANGED << state, flags, nflags, watcher, host, thr, queue, event, ops,
                  last, accepts, owed, acc, stopped, html >>
call_detach_child ==
  /\ ret.fn = "attach_child"
  /\ procs' = [procs EXCEPT ![1] = detach_child(@, Unwrap(ret.val))]
  /\ ret' = [ret EXCEPT !.fn = "detach_child"]
  /\ UNCHANGED << state, flags, nflags, watcher, host, thr, queue, event, ops,
                  last, accepts, owed, acc, stopped, html >>
\* find_window_by_pid, one pass of its loop: the windows are what the desktop holds at
\* that moment; the pass returns the window found, or gives up when the time is over,
\* or sleeps and goes round again. Time is counted in sleeps of 100 ms: a pass takes
\* no time or some, the sleep takes one.
poll_find_window_by_pid ==
  /\ ret.fn = "find"
  /\ \E windows \in Enumerations, pass \in 0..1 :
       LET data == EnumWindows(windows, FindData(ret.of.pid))
           elapsed == ret.of.elapsed + pass
           seen == [ret.of EXCEPT !.polls = @ + 1, !.elapsed = elapsed, !.windows = windows]
       IN IF data.hwnd # 0
          THEN ret' = [ fn |-> "find_window_by_pid", of |-> seen, val |-> Some(data.hwnd) ]
          ELSE IF timeout_over(elapsed, ret.of.timeout)
          THEN ret' = [ fn |-> "find_window_by_pid", of |-> seen, val |-> None ]
          ELSE ret' = [ret EXCEPT !.of.polls = @ + 1, !.of.elapsed = elapsed + 1]
  /\ UNCHANGED << state, flags, nflags, watcher, procs, host, thr, queue, event, ops,
                  last, accepts, owed, acc, stopped, html >>
\* handle_login3_response, lines 181-193: the required parameters are looked for in the
\* value, then the URL is built from it
call_build_swf_url ==
  /\ ret.fn = "value"
  /\ ret' = [ret EXCEPT
       !.fn = "build_swf_url",
       !.val = IF has_required_params(html) THEN build_swf_url(html) ELSE None]
  /\ UNCHANGED << state, flags, nflags, watcher, procs, host, thr, queue, event, ops,
                  last, accepts, owed, acc, stopped, html >>
ParseNext ==
  \/ call_build_swf_url
  \/ poll_find_window_by_pid
  \/ call_parse_login3_value
  \/ call_redact_tokens
  \/ call_attach_child
  \/ call_detach_child
ParseSpec == ParseInit /\ [][ParseNext]_vars

\* the two deadline polls beside the application: find_window_by_pid called on its own,
\* or the application with its watcher threads. The thread in find_window_by_pid and
\* the watcher threads run: each of their steps is eventually taken.
PollInit ==
  \/ Init
  \/ /\ InitApp
     /\ html = << >>
     /\ \E call \in FindCalls : ret = [ fn |-> "find", of |-> call, val |-> None ]
PollNext ==
  \/ ret = NoCall /\ Next
  \/ poll_find_window_by_pid
PollSpec ==
  /\ PollInit
  /\ [][PollNext]_vars
  /\ WF_vars(poll_find_window_by_pid)
  /\ \A f \in Flags :
       /\ WF_vars(watcher_poll(f))
       /\ WF_vars(watcher_deadline(f))
       /\ WF_vars(watcher_fire(f))

\* =================================================================== claims
HandlerPcs == { "h_emit_found", "h_launching", "h_emit_launching", "h_schedule" }
StopProjectorSteps ==
  { "stop_projector", "restart_projector", "launch_stop_existing", "reset_stop_projector" }
ResetSteps == { "reset_to_login", "reset_stop_projector", "reset_stop_timer",
                "reset_state_set", "reset_return" }
Attached == { p \in Pids : procs[p].life = "alive" /\ procs[p].parent = "host" }
\* watcher f changes the state in this step
Fires(f) == watcher[f] = "lock" /\ watcher'[f] = "done" /\ state' # state

\* C1: between two clears of swf_url (start, stop, reset) at most one value is accepted;
\* exactly the accepting handlers schedule a launch, one each; a response handled while
\* status is Running or swf_url is set changes no field of AppState and schedules nothing.
C1_SingleFlight ==
  /\ [](/\ accepts <= 1
        /\ owed = Cardinality({ t \in Callers : thr[t].pc \in HandlerPcs }))
  /\ [][ (last'.op = "handle_login3_response"
            /\ (state.status = "Running" \/ IsSome(state.swf_url)))
          => (state' = state /\ queue' = queue /\ thr' = thr /\ flags' = flags) ]_vars
C1_Witness ==
  /\ last.op = "handle_login3_response"
  /\ last.note = "not_accepted"
  /\ accepts = 1
  /\ queue = 1

\* C2: at most one projector process is alive with its window attached to the host.
C2_OneAttached == Cardinality(Attached) <= 1


\* C3: a watcher armed on a quiet capture session (flag unset, status Capturing, no
\* value) leads to status Error with the timeout message and swf_url None, unless a
\* command or callback changes the session first.
Quiet(f) ==
  /\ ~flags[f]
  /\ state.capture_stop = Some(f)
  /\ state.status = "Capturing"
  /\ ~IsSome(state.swf_url)
TimedOut ==
  /\ state.status = "Error"
  /\ state.message = Some(MsgTimeout)
  /\ state.swf_url = None
WatcherSteps == { "watcher_poll", "watcher_deadline", "watcher_fire" }
Interfered(f) == ~Quiet(f) /\ last.op \notin WatcherSteps
C3_TimeoutFires ==
  \A f \in Flags : (watcher[f] = "poll" /\ Quiet(f)) ~> (TimedOut \/ Interfered(f))
C3_Witness ==
  /\ last.op = "watcher_fire"
  /\ TimedOut
  /\ event = Some([status |-> "Error", message |-> Some(MsgTimeout)])

\* C4: the watcher of a session never changes the state once a value was accepted in
\* that session or stop_capture has set the session's flag.
C4_NoFireAfterCancel ==
  [][ \A f \in Flags : Fires(f) => (f \notin acc /\ f \notin stopped) ]_vars

\* C5: while capture_stop holds the flag of a later session, the watcher of an earlier
\* session never changes the state.
C5_NoStaleFire ==
  [][ \A f \in Flags : Fires(f) => ~(\E g \in Flags : g # f /\ state.capture_stop = Some(g)) ]_vars

\* C6: when launch_projector_auto returns Err(msg), status is Error and message is msg.
C6_ErrSetsError ==
  (last.op = "launch_return" /\ IsSome(last.err))
    => (state.status = "Error" /\ state.message = last.err)

\* C7: status leaves Error only in a step of reset_to_login.
C7_ErrorOnlyReset ==
  [][ (state.status = "Error" /\ state'.status # "Error") => last'.op \in ResetSteps ]_vars

\* C8: stop_projector with no projector recorded changes no field of AppState and makes
\* no native call.
C8_StopNoop ==
  [][ (last'.op \in StopProjectorSteps /\ ~IsSome(state.projector))
        => (state' = state /\ procs' = procs) ]_vars

\* C9: stop_projector with a projector recorded detaches its window once, with the style
\* attach_child returned, then terminates the process once, and leaves projector None,
\* last_projector_rect None and status Login; no process is ever detached or terminated
\* twice, and none is terminated before its window was detached.
Positions(p, f) == { i \in DOMAIN procs[p].calls : procs[p].calls[i].f = f }
DetachedOnceThenKilled(p) ==
  /\ Cardinality(Positions(p, "detach_child")) <= 1
  /\ Cardinality(Positions(p, "terminate")) <= 1
  /\ \A j \in Positions(p, "terminate") :
       /\ j > 1
       /\ procs[p].calls[j - 1].f = "detach_child"
  /\ \A i \in Positions(p, "detach_child") :
       \E a \in Positions(p, "attach_child") :
         a < i /\ procs[p].calls[i].arg = procs[p].calls[a].arg
C9_StopProjector ==
  /\ [](/\ \A p \in Pids : DetachedOnceThenKilled(p)
        /\ last.op \in StopProjectorSteps =>
             /\ state.projector = None
             /\ state.last_projector_rect = None
             /\ state.status = "Login")
  /\ [][ (last'.op \in StopProjectorSteps /\ IsSome(state.projector)) =>
           LET h == Unwrap(state.projector) IN
           /\ procs'[h.pid].calls =
                procs[h.pid].calls \o << Call("detach_child", << h.original_style >>),
                                         Call("terminate", << >>) >>
           /\ procs'[h.pid].life = "dead"
           /\ \A p \in Pids \ { h.pid } : procs'[p] = procs[p] ]_vars
C9_Witness ==
  /\ last.op \in StopProjectorSteps
  /\ \E p \in Pids : Positions(p, "terminate") # {} /\ procs[p].life = "dead"

\* C10: FoundValue is entered only from Capturing, Launching only from FoundValue,
\* Running only from Launching.
Enters(st) == state'.status = st /\ state.status # st
C10_StatusChain ==
  [][ /\ Enters("FoundValue") => state.status = "Capturing"
      /\ Enters("Launching") => state.status = "FoundValue"
      /\ Enters("Running") => state.status = "Launching" ]_vars

\* C11: while one launch_projector_auto invocation is in progress, an overlapping one is
\* rejected, so it spawns no process and records no projector: two invocations in
\* progress at once have never both spawned and embedded a process.
PastSpawn == { "l_record", "l_emit" }
C11_OverlapRejected ==
  \A t, u \in Callers :
    t # u => ~(thr[t].pc \in PastSpawn /\ thr[u].pc \in PastSpawn)

\* C12 as stated: swf_url is None after a launch has read it and spawned the process
\* (the launch returned Ok), and after the state write of reset_to_login.
C12_ClearedOnUse ==
  \/ last.op = "launch_return" /\ ~IsSome(last.err)
  \/ last.op = "reset_state_set"
  => state.swf_url = None

\* C12, amended: the state write of reset_to_login leaves swf_url None, and no step of
\* launch_projector_auto changes swf_url (a launch reads it and leaves it in place).
LaunchSteps ==
  { "launch_projector", "run_scheduled_launch", "launch_validate", "launch_stop_existing",
    "launch_body", "launch_record", "launch_return" }
C12_ClearedOnReset ==
  [][ /\ last'.op = "reset_state_set" => state'.swf_url = None
      /\ last'.op \in LaunchSteps => state'.swf_url = state.swf_url ]_vars
C12_Witness ==
  /\ last.op = "launch_return"
  /\ ~IsSome(last.err)
  /\ state.status = "Running"
  /\ IsSome(state.swf_url)

\* C13: for every host client size (w, h) and toolbar height b = round(36 * scale), a
\* resize_projector_to_window that repositions the child moves it to
\* (0, b, w, max(h - b, 1)) and keeps that rect; for (1024, 768) at scale 1 the rect is
\* (0, 36, 1024, 732).
Rounded(num, den) ==
  CHOOSE b \in 0..num : den * (2 * b - 1) <= 2 * num /\ 2 * num < den * (2 * b + 1)
Target(h) ==
  LET b == Rounded(36 * h[3], 100) IN
  << 0, b, h[1], IF h[2] - b >= 1 THEN h[2] - b ELSE 1 >>
Repositions(t) ==
  /\ last'.op = "resize_apply"
  /\ thr[t].pc = "z_move"
  /\ thr'[t].pc = "idle"
  /\ procs' # procs
C13_ChildRect ==
  [][ \A t \in Callers :
        Repositions(t) =>
          LET calls == procs'[thr[t].hwnd].calls IN
          /\ Len(calls) = Len(procs[thr[t].hwnd].calls) + 2
          /\ calls[Len(calls) - 1] = Call("move_child", Target(host))
          /\ state'.last_projector_rect = Some(Target(host))
          /\ host = << 1024, 768, 100 >> => calls[Len(calls) - 1].arg = << 0, 36, 1024, 732 >>
    ]_vars
C13_Witness ==
  /\ last.op = "resize_apply"
  /\ state.last_projector_rect = Some(<< 0, 36, 1024, 732 >>)
  /\ \E p \in Pids :
       /\ Len(procs[p].calls) >= 2
       /\ procs[p].calls[Len(procs[p].calls) - 1] = Call("move_child", << 0, 36, 1024, 732 >>)
       /\ IsSome(state.projector) /\ Unwrap(state.projector).hwnd = p

\* C14: a resize_projector_to_window whose computed rect equals last_projector_rect makes
\* no native call and changes no state, and one that repositions the child found a
\* different last_projector_rect and leaves the computed rect in it: of two consecutive
\* calls with unchanged host size the second never calls move_child.
Resizes(t) ==
  /\ last'.op = "resize_apply"
  /\ thr[t].pc = "z_move"
  /\ thr'[t].pc = "idle"
C14_ShortCircuit ==
  [][ \A t \in Callers :
        /\ (Resizes(t) /\ state.last_projector_rect = Some(Target(host)))
             => (procs' = procs /\ state' = state)
        /\ (Resizes(t) /\ procs' # procs)
             => /\ state.last_projector_rect # Some(Target(host))
                /\ state'.last_projector_rect = Some(Target(host)) ]_vars
C14_Witness ==
  /\ last.op = "resize_apply"
  /\ last.note = "same_rect"
  /\ IsSome(state.projector)
  /\ state.last_projector_rect = Some(Target(host))
  /\ Cardinality(Positions(Unwrap(state.projector).hwnd, "move_child")) = 2

\* C15: for a body that holds, after the anchor `function swf`, the attribute
\* flashVars="<blob>" with config= and angel_uin= in the blob, parse_login3_value returns
\* a value that contains both config= and angel_uin=, whatever the letter case of the
\* attribute name, the ASCII whitespace around `=` and the quote character.
Within(part, text) ==
  \E i \in 1..Len(text) :
    /\ i + Len(part) - 1 <= Len(text)
    /\ SubSeq(text, i, i + Len(part) - 1) = part
HasBoth(text) == Within(KeyConfig, text) /\ Within(KeyAngelUin, text)
ParsedForm(form) == ret.fn = "parse_login3_value" /\ ret.of.form = form
C15_AttributeForm ==
  (ParsedForm("attr") /\ ret.of.anchor /\ HasBoth(ret.of.blob))
    => (IsSome(ret.val) /\ HasBoth(Unwrap(ret.val)))
C15_Witness ==
  /\ ParsedForm("attr")
  /\ ret.of.anchor
  /\ ret.of.name = AttrCaps
  /\ ret.of.ws1 = << "\t", "\n" >>
  /\ ret.of.ws2 = << "\r", "\f" >>
  /\ ret.of.quote = "'"
  /\ ret.of.blob = BlobFull
  /\ ret.val = Some(BlobFull)

\* C16: for a body whose `function swf` block carries the blob as a param element,
\* name="FlashVars" value="<blob>", with config= and angel_uin= in the blob,
\* parse_login3_value returns a value that contains both config= and angel_uin=.
C16_ParamForm ==
  (ParsedForm("param") /\ ret.of.anchor /\ HasBoth(ret.of.blob))
    => (IsSome(ret.val) /\ HasBoth(Unwrap(ret.val)))

\* C17: for a body whose `function swf` script writes the attribute with backslash-escaped
\* quotes, flashVars=\"<blob>\", parse_login3_value returns a value that contains the
\* angel_uin=<v> pair of the blob.
PairEnd(blob, i) ==
  IF \E j \in i..Len(blob) : blob[j] = "&"
  THEN (CHOOSE j \in i..Len(blob) : blob[j] = "&" /\ \A k \in i..(j - 1) : blob[k] # "&") - 1
  ELSE Len(blob)
UinPair(blob) ==
  LET i == CHOOSE k \in 1..Len(blob) : SubSeq(blob, k, k + Len(KeyAngelUin) - 1) = KeyAngelUin
  IN SubSeq(blob, i, PairEnd(blob, i))
C17_EscapedQuotes ==
  (ParsedForm("escaped") /\ ret.of.anchor /\ Within(KeyAngelUin, ret.of.blob))
    => (IsSome(ret.val) /\ Within(UinPair(ret.of.blob), Unwrap(ret.val)))
C17_Witness ==
  /\ ParsedForm("escaped")
  /\ ret.of.anchor
  /\ ret.of.quote = "'"
  /\ ret.of.blob = BlobFull
  /\ UinPair(ret.of.blob) = << "a", "n", "g", "e", "l", "_", "u", "i", "n", "=", "1", "2", "3" >>
  /\ ret.val = Some(BlobFull)

\* C18: when handle_login3_response is given a body with no occurrence of flashVars in any
\* letter case, parse_login3_value returns no value and the handler returns at once:
\* every field of AppState is unchanged, no status event is emitted, no launch is
\* scheduled and no watcher flag is touched.
NoFlashVars(text) ==
  \A i \in 1..Len(text) :
    \/ i + Len(AttrLower) - 1 > Len(text)
    \/ \E k \in 1..Len(AttrLower) :
         to_ascii_lowercase(text[i + k - 1]) # to_ascii_lowercase(AttrLower[k])
C18_NoFlashVars ==
  [][ (last'.op = "handle_login3_response" /\ NoFlashVars(html')) =>
        /\ last'.note = "no_value"
        /\ state' = state
        /\ event' = event
        /\ queue' = queue
        /\ flags' = flags
        /\ thr' = thr ]_vars
C18_Witness ==
  /\ last.op = "handle_login3_response"
  /\ last.note = "no_value"
  /\ Within(Needle, html)
  /\ NoFlashVars(html)
  /\ state.status = "Capturing"

\* C19: for a body without the anchor `function swf` that holds a well-formed
\* flashVars="<blob>" attribute, parse_login3_value searches the whole body and returns
\* the blob.
C19_AnchorOptional ==
  (ParsedForm("attr") /\ ~ret.of.anchor) => ret.val = Some(ret.of.blob)

\* C20: when the value extracted from the body lacks config= or lacks angel_uin=,
\* handle_login3_response returns without mutating AppState (status, message, swf_url and
\* capture_stop among its fields), without cancelling the timeout watcher, without an
\* event and without scheduling a launch.
LacksParam(body) == IsSome(Parsed[body]) /\ ~HasBoth(Unwrap(Parsed[body]))
C20_MissingParams ==
  [][ (last'.op = "handle_login3_response" /\ LacksParam(html')) =>
        /\ last'.note = "missing_params"
        /\ state' = state
        /\ flags' = flags
        /\ watcher' = watcher
        /\ event' = event
        /\ queue' = queue
        /\ thr' = thr ]_vars
C20_Witness ==
  /\ last.op = "handle_login3_response"
  /\ LacksParam(html)
  /\ ~Within(KeyAngelUin, Unwrap(Parsed[html]))
  /\ state.status = "Capturing"
  /\ IsSome(state.capture_stop)
  /\ ~flags[Unwrap(state.capture_stop)]
  /\ watcher[Unwrap(state.capture_stop)] # "none"

\* C21: for a text made of key=value pairs joined by `&`, redact_tokens replaces the value
\* of a pair by `*` if and only if the key of the pair is exactly one of angel_uin,
\* angel_key, skey, pskey, and leaves every other pair and character as it is.
Listed == { NameAngelUin, NameAngelKey, NameSkey, NamePskey }
Redacted == ret.fn = "redact_tokens"
RECURSIVE MaskedFrom(_, _)
MaskedFrom(pairs, n) ==
  IF n > Len(pairs) THEN << >>
  ELSE (IF n > 1 THEN << "&" >> ELSE << >>)
         \o pairs[n].key \o << "=" >>
         \o (IF pairs[n].key \in Listed THEN << "*" >> ELSE pairs[n].val)
         \o MaskedFrom(pairs, n + 1)
C21_MasksListedKeys == Redacted => ret.val[1] = MaskedFrom(ret.of.pairs, 1)

\* C22: two texts that differ only in the values of angel_uin, angel_key, skey or pskey,
\* none of these values containing any of & " ' < >, are given the same output by
\* redact_tokens.
Plain(value) == \A i \in DOMAIN value : value[i] \notin { "&", "\"", "'", "<", ">" }
PlainSecrets ==
  /\ Plain(ret.of.other)
  /\ \A n \in DOMAIN ret.of.pairs :
       ret.of.pairs[n].key \in Listed => Plain(ret.of.pairs[n].val)
C22_SecretsHidden == (Redacted /\ PlainSecrets) => ret.val[1] = ret.val[2]
C22_Witness ==
  /\ Redacted
  /\ ret.of.pairs = << [ key |-> NameAngelKey, val |-> ValueSecret ],
                       [ key |-> NameFoo, val |-> ValueBar ] >>
  /\ ret.of.other = << >>
  /\ ret.val[1] = NameAngelKey \o << "=", "*", "&" >> \o NameFoo \o << "=" >> \o ValueBar
  /\ ret.val[2] = ret.val[1]

\* ---------------------------------------------------------------- C23
\* C23: for every style s a window has when attach_child reads it, attach_child returns
\* s, and detach_child called with that value leaves the window with style exactly s
\* and with no parent (a top-level window again).
AfterAttach == ret.fn = "attach_child"
AfterDetach == ret.fn = "detach_child"
C23_RoundTrip ==
  /\ AfterAttach => ret.val = Some(ret.of)
  /\ AfterDetach => /\ ret.val = Some(ret.of)
                    /\ procs[1].style = ret.of
                    /\ procs[1].parent = "desktop"

\* ---------------------------------------------------------------- C24
\* C24: after attach_child the window's style is the style it had with the bits of
\* WS_OVERLAPPEDWINDOW and WS_POPUP removed and WS_CHILD and WS_VISIBLE added, every
\* other bit as it was, and its parent is the host window.
BitsOf(style) == { b \in StyleBits : BitAnd(style, b) = b }
ChildBits(style) == (BitsOf(style) \ { WS_OVERLAPPEDWINDOW, WS_POPUP }) \cup { WS_CHILD, WS_VISIBLE }
C24_AttachStyle ==
  AfterAttach => /\ BitsOf(procs[1].style) = ChildBits(ret.of)
                 /\ procs[1].style = StyleOf(ChildBits(ret.of))
                 /\ procs[1].parent = "host"
\* a hidden popup window with a scroll bar became a visible child that kept the scroll bar
C24_Witness ==
  /\ AfterAttach
  /\ ret.of = WS_POPUP + 32
  /\ procs[1].style = WS_CHILD + WS_VISIBLE + 32
  /\ procs[1].parent = "host"

\* ---------------------------------------------------------------- C25
\* C25 as stated: find_window_by_pid returns a window only if it belongs to pid, has no
\* owner and is visible; an ownerless window of pid that is not visible is never returned.
Found == ret.fn = "find_window_by_pid" /\ IsSome(ret.val)
NotFound == ret.fn = "find_window_by_pid" /\ ~IsSome(ret.val)
FoundWindow == ret.of.windows[Unwrap(ret.val)]
Candidates(windows, pid) ==
  { h \in DOMAIN windows : windows[h].pid = pid /\ ~windows[h].owner }
C25_VisibleOwnerless ==
  Found => /\ FoundWindow.pid = ret.of.pid
           /\ ~FoundWindow.owner
           /\ FoundWindow.visible
\* C25, amended: find_window_by_pid returns a window only if it belongs to pid and has
\* no owner, visible or not: it is the first such window of the pass; it fails only
\* when the last pass held no ownerless window of pid.
C25_Ownerless ==
  /\ Found => /\ Unwrap(ret.val) \in Candidates(ret.of.windows, ret.of.pid)
              /\ \A h \in Candidates(ret.of.windows, ret.of.pid) : Unwrap(ret.val) <= h
  /\ NotFound => Candidates(ret.of.windows, ret.of.pid) = {}
\* a hidden ownerless window was returned although a visible one came after it
C25_Witness ==
  /\ Found
  /\ Unwrap(ret.val) = 1
  /\ ~FoundWindow.visible
  /\ Len(ret.of.windows) = 2
  /\ ret.of.windows[2] = [ pid |-> ret.of.pid, owner |-> FALSE, visible |-> TRUE ]

\* ---------------------------------------------------------------- C26
\* C26: when find_window_by_pid fails after a successful spawn, launch_projector_auto
\* aborts: status becomes Error with the finder's message, projector stays None, the
\* new process is running with no native call made on it (no attach, no reposition,
\* no termination) and no field of AppState records it; the launch then returns the
\* error and changes nothing else.
NoWindowStep(t) ==
  At(t, "l_body") /\ thr'[t].pc = "l_error" /\ thr'[t].msg = Some(MsgNoWindow)
NoWindowReturn(t) ==
  At(t, "l_error") /\ thr[t].msg = Some(MsgNoWindow) /\ thr'[t].pc = "idle"
C26_AbortOnNoWindow ==
  [][ \A t \in Callers :
        /\ NoWindowStep(t) =>
             /\ state.projector = None
             /\ state' = [state EXCEPT !.status = "Error", !.message = Some(MsgNoWindow)]
             /\ \E p \in Pids :
                  /\ procs[p].life = "unborn"
                  /\ procs'[p] = [ProcNew EXCEPT !.life = "alive"]
                  /\ \A q \in Pids \ { p } : procs'[q] = procs[q]
        /\ NoWindowReturn(t) =>
             /\ last'.op = "launch_return"
             /\ last'.err = Some(MsgNoWindow)
             /\ state' = state
             /\ procs' = procs ]_vars
\* the launch returned the finder's error; the process it spawned runs, untouched
C26_Witness ==
  /\ last.op = "launch_return"
  /\ last.err = Some(MsgNoWindow)
  /\ state.status = "Error"
  /\ state.projector = None
  /\ state.wpe_interceptor = None
  /\ \E p \in Pids : procs[p] = [ProcNew EXCEPT !.life = "alive"]

\* ---------------------------------------------------------------- C27
\* C27: no native window or process call (detach_child, termination, move_child,
\* bring_to_top) is made while the AppState mutex is held, in any operation. (The claim
\* says the same of status events; the formula is its half about native calls.)
C27_NoNativeUnderLock ==
  \A p \in Pids : procs[p].under_lock = {}

\* ---------------------------------------------------------------- C28
\* C28: every change of status is followed, before the next change of status, by a
\* status_changed event carrying the new status and message. Stated on the step that
\* changes the status: unless the status is still the first one and nothing was ever
\* emitted, the last event emitted carries the status and message being left.
NeverChanged == event = None /\ state.status = "Login" /\ state.message = None
C28_NoSilentTransition ==
  [][ state'.status # state.status => (NeverChanged \/ event = StatusPayload(state)) ]_vars

\* ---------------------------------------------------------------- C29
\* C29: whenever no command is in progress, AppState.projector is Some exactly when a
\* launched process has its window attached to the host: every attached window is the
\* one recorded, and the recorded handle is of a live process whose window is attached.
NoCommandRunning == \A t \in Callers : At(t, "idle")
C29_ProjectorIffEmbedded ==
  NoCommandRunning =>
    /\ \A p \in Attached : IsSome(state.projector) /\ Unwrap(state.projector).pid = p
    /\ IsSome(state.projector) => Unwrap(state.projector).pid \in Attached

\* ---------------------------------------------------------------- C30
\* C30: at most one timeout watcher is live: at most one watcher thread still running
\* has a cancellation flag that is unset, and that flag is the one AppState.capture_stop
\* refers to, also when two start_capture calls interleave.
LiveWatchers == { f \in Flags : watcher[f] \in { "poll", "lock" } /\ ~flags[f] }
C30_OneLiveWatcher ==
  /\ Cardinality(LiveWatchers) <= 1
  /\ \A f \in LiveWatchers : state.capture_stop = Some(f)

\* ---------------------------------------------------------------- C31
\* C31: whenever a projector is embedded (and no command is in progress),
\* last_projector_rect is the geometry most recently applied to its window by
\* move_child, the reposition made by launch_projector_auto included.
LastMove(p) ==
  LET at == Positions(p, "move_child")
  IN IF at = {} THEN None
     ELSE Some(procs[p].calls[CHOOSE i \in at : \A j \in at : j <= i].arg)
C31_RectIsLastMove ==
  (NoCommandRunning /\ IsSome(state.projector)) =>
    state.last_projector_rect = LastMove(Unwrap(state.projector).pid)

\* ---------------------------------------------------------------- C32
\* C32: in every successful launch the native steps on the new window happen in the
\* order hide_window, attach_child, move_child, bring_to_top; the handle is recorded
\* and the status set to Running only after all four; and no window is ever attached,
\* moved or raised before it was hidden.
NativeOrder == << "hide_window", "attach_child", "move_child", "bring_to_top" >>
Embedded(p) ==
  /\ Len(procs[p].calls) >= Len(NativeOrder)
  /\ \A i \in DOMAIN NativeOrder : procs[p].calls[i].f = NativeOrder[i]
HiddenFirst(p) ==
  \A i \in DOMAIN procs[p].calls :
    procs[p].calls[i].f \in { "attach_child", "move_child", "bring_to_top" } =>
      \E j \in 1..(i - 1) : procs[p].calls[j].f = "hide_window"
C32_LaunchOrder ==
  /\ [](/\ \A p \in Pids : HiddenFirst(p)
        /\ IsSome(state.projector) => Embedded(Unwrap(state.projector).pid))
  /\ [][ (IsSome(state'.projector) /\ state'.projector # state.projector) =>
           /\ state'.status = "Running"
           /\ Embedded(Unwrap(state'.projector).pid)
           /\ procs' = procs ]_vars
\* a launch has recorded its handle: the window's log starts with the four steps
C32_Witness ==
  /\ last.op = "launch_record"
  /\ state.status = "Running"
  /\ IsSome(state.projector)
  /\ Embedded(Unwrap(state.projector).pid)

\* ---------------------------------------------------------------- C33
\* C33: in every reachable state status Running implies that projector is Some; the
\* status becomes Running only in the step that records the handle, and the handle is
\* removed only in a step that also sets the status to Login.
C33_RunningHasProjector ==
  /\ [](state.status = "Running" => IsSome(state.projector))
  /\ [][ /\ (state'.status = "Running" /\ state.status # "Running") =>
              (IsSome(state'.projector) /\ state'.projector # state.projector)
         /\ (IsSome(state.projector) /\ ~IsSome(state'.projector)) =>
              state'.status = "Login" ]_vars
\* a launch has returned: the status is Running and the handle of a live process is held
C33_Witness ==
  /\ last.op = "launch_return"
  /\ last.err = None
  /\ state.status = "Running"
  /\ IsSome(state.projector)
  /\ procs[Unwrap(state.projector).pid].life = "alive"

\* ---------------------------------------------------------------- C34
\* C34: in every reachable state a recorded projector implies status Running: no
\* operation moves the status away from Running and leaves the projector in place.
C34_ProjectorIsRunning ==
  IsSome(state.projector) => state.status = "Running"

\* ---------------------------------------------------------------- C35
\* C35: a URL built from an accepted value has the form
\* https://res.17roco.qq.com/main.swf?<nonce>=&<blob>, where <blob> is not empty, does
\* not start with ? or &, and contains both config= and angel_uin=.
Built == ret.fn = "build_swf_url" /\ IsSome(ret.val)
C35_UrlForm ==
  Built =>
    LET url == Unwrap(ret.val)
    IN /\ url.base = "https://res.17roco.qq.com/main.swf"
       /\ url.query # << >>
       /\ url.query[1] \notin { "?", "&" }
       /\ HasBoth(url.query)

\* ---------------------------------------------------------------- C36
\* C36: a launch_projector_auto that finds swf_url None spawns no process and makes no
\* window search or attach: it sets status Error, returns 'Missing main.swf URL.', and
\* a projector that was embedded when it was called has been detached and terminated,
\* so projector is None on return.
MissingUrlStep(t) ==
  At(t, "l_body") /\ thr'[t].pc = "l_error" /\ thr'[t].msg = Some(MsgMissingUrl)
MissingUrlReturn(t) ==
  At(t, "l_error") /\ thr[t].msg = Some(MsgMissingUrl) /\ thr'[t].pc = "idle"
C36_MissingUrl ==
  [][ \A t \in Callers :
        /\ MissingUrlStep(t) =>
             /\ ~IsSome(thr[t].swf)
             /\ state.projector = None
             /\ state' = [state EXCEPT !.status = "Error", !.message = Some(MsgMissingUrl)]
             /\ procs' = procs
        /\ (At(t, "l_stop") /\ thr'[t].pc # "l_stop" /\ IsSome(state.projector)) =>
             LET p == Unwrap(state.projector).pid
             IN /\ state'.projector = None
                /\ procs'[p].life = "dead"
                /\ Positions(p, "detach_child") = {}
                /\ procs'[p].calls[Len(procs'[p].calls) - 1].f = "detach_child"
        /\ MissingUrlReturn(t) =>
             /\ last'.op = "launch_return"
             /\ last'.err = Some(MsgMissingUrl)
             /\ state' = state
             /\ state.projector = None
             /\ procs' = procs ]_vars

\* a launch found a projector in place and no URL: the projector's process is dead, its
\* window was detached first, and the launch returned the missing-URL error
C36_Witness ==
  /\ last.op = "launch_return"
  /\ last.err = Some(MsgMissingUrl)
  /\ state.status = "Error"
  /\ state.projector = None
  /\ \E p \in Pids :
       /\ procs[p].life = "dead"
       /\ procs[p].calls[Len(procs[p].calls)].f = "terminate"
       /\ Positions(p, "detach_child") # {}
  /\ \A p \in Pids : procs[p].life # "alive"

\* ---------------------------------------------------------------- C37
\* C37: once reset_to_login has made its state reset, whatever the status was, the
\* status is Login, message, swf_url, projector and last_projector_rect are None, no
\* process is left attached by a recorded handle, and the flag capture_stop refers to
\* is set; this also holds when the command then fails to show the login webview and
\* returns an error.
AfterReset ==
  \/ \E t \in Callers : At(t, "r_show")
  \/ last.op = "reset_return"
ResetDone ==
  /\ state.status = "Login"
  /\ state.message = None
  /\ state.swf_url = None
  /\ state.projector = None
  /\ state.last_projector_rect = None
  /\ \A f \in Session(state) : flags[f]
C37_ResetState ==
  /\ [](AfterReset => ResetDone)
  /\ [][ \A t \in Callers :
           (At(t, "r_stop") /\ thr'[t].pc # "r_stop" /\ IsSome(state.projector)) =>
             LET p == Unwrap(state.projector).pid
             IN /\ procs'[p].life = "dead"
                /\ procs'[p].calls[Len(procs'[p].calls) - 1].f = "detach_child" ]_vars
\* a reset made from Running with a capture session open failed to show the login
\* webview: the state is reset all the same and the projector's process is dead
C37_Witness ==
  /\ last.op = "reset_return"
  /\ last.err = Some(MsgLoginView)
  /\ ResetDone
  /\ Session(state) # {}
  /\ \E p \in Pids : procs[p].life = "dead"

\* ---------------------------------------------------------------- C38
\* C38: in every interleaving of resize_projector_to_window with stop_projector,
\* last_projector_rect is None whenever projector is None, and move_child is never
\* called on the window of a process that was already terminated.
C38_ResizeStopRace ==
  /\ state.projector = None => state.last_projector_rect = None
  /\ \A p \in Pids :
       \A i \in Positions(p, "move_child") : \A j \in Positions(p, "terminate") : i < j

\* ---------------------------------------------------------------- C39
\* C39: when the attribute's opening delimiter is a backslash-escaped quote, extraction
\* ends at the matching backslash-escaped closing quote: for a body that holds
\* flashVars=\"V\" extract_attr_value returns exactly V, with nothing from after the
\* closing delimiter.
C39_EscapedDelimiters ==
  ParsedForm("escaped") => extract_attr_value(html, AttrLower) = Some(ret.of.blob)

\* ---------------------------------------------------------------- C40
\* C40: both deadline polls terminate. find_window_by_pid enumerates the windows at least
\* once, even with a timeout of 0; it returns Ok with the window of the first pass that
\* sees a matching one, and Err only after a pass without a match once the elapsed time
\* exceeds the timeout; it goes round again only while the time is not over, and every
\* call returns. Every timeout watcher thread ends: on a read of its flag that finds it
\* set, or after its one look at the state past the deadline, which it takes once.
FindReturned == ret.fn = "find_window_by_pid"
FindMatch == EnumWindows(ret.of.windows, FindData(ret.of.pid)).hwnd
FindReturnsRight ==
  FindReturned =>
    /\ ret.of.polls >= 1
    /\ IF FindMatch # 0
       THEN ret.val = Some(FindMatch)
       ELSE ret.val = None /\ ret.of.elapsed > ret.of.timeout
FindGoesRound ==
  (ret.fn = "find" /\ ret.of.polls > 0) =>
    /\ ret.of.elapsed <= ret.of.timeout + 1
    /\ ret.of.polls <= ret.of.elapsed
WatcherEnds(f) ==
  (watcher[f] # "done" /\ watcher'[f] = "done") =>
    \/ watcher[f] = "poll" /\ flags[f] /\ last'.op \in { "watcher_poll", "watcher_deadline" }
    \/ watcher[f] = "lock" /\ last'.op = "watcher_fire"
WatcherChecksOnce(f) ==
  /\ watcher[f] = "done" => watcher'[f] = "done"
  /\ (watcher[f] # "lock" /\ watcher'[f] = "lock") => (watcher[f] = "poll" /\ ~flags[f])
C40_PollsTerminate ==
  /\ [](FindReturnsRight /\ FindGoesRound)
  /\ [][\A f \in Flags : WatcherEnds(f) /\ WatcherChecksOnce(f)]_vars
  /\ (ret.fn = "find") ~> FindReturned
  /\ \A f \in Flags : (watcher[f] \in { "poll", "lock" }) ~> (watcher[f] = "done")
\* a call with timeout 0 that found nothing in its passes and gave up, and in the
\* application a watcher that ended after its look at the state
C40_Witness ==
  \/ /\ FindReturned
     /\ ret.of.timeout = 0
     /\ ret.val = None
     /\ ret.of.polls = 2
  \/ /\ last.op = "watcher_fire"
     /\ \E f \in Flags : watcher[f] = "done" /\ ~flags[f]

====
